---- MODULE Spec2Model ----
(***************************************************************************)
(* Model of tg_bot.py: a Telegram shop bot.  A ConversationHandler keeps   *)
(* one conversation state per chat; the handlers start, handle_menu,       *)
(* handle_cart and handle_email call a remote Strapi store (carts,         *)
(* cart-products, clients, products) and render views into the chat.       *)
(*                                                                         *)
(* The dispatcher runs handlers one update at a time (no run_async), so    *)
(* every action below is one whole handler invocation, with all of its     *)
(* remote calls.  Each remote call may succeed or fail; a write may also   *)
(* be applied by the store while its response is lost.                     *)
(***************************************************************************)
EXTENDS Integers, Sequences, FiniteSets, TLC

\* ---------------------------------------------------------------- bounds
NumUsers    == 2   \* chats talking to the bot
NumProducts == 2   \* products of the catalog
MaxDocs     == 2   \* document ids the store hands out (rows per collection)
MaxMsgs     == 1   \* most recent keyboard messages of a chat that are tracked
Solo        == 1   \* the chat whose updates Spec follows
MaxRows     == 3   \* rows of the cart SpecView starts with
MaxQty      == 3   \* largest quantity of such a row

Users    == 1..NumUsers
Products == 1..NumProducts
\* document ids of cart-products rows: the store's ids are opaque and unique, so
\* no row has the document id of a cart (carts have the ids 1..NumUsers)
DocIds   == (NumUsers + 1)..(NumUsers + MaxDocs)

\* ------------------------------------------------ conversation states
\* START, HANDLE_MENU, HANDLE_CART, WAITING_EMAIL = range(4)
START         == 0
HANDLE_MENU   == 1
HANDLE_CART   == 2
WAITING_EMAIL == 3
\* a chat the ConversationHandler holds no state for (no /start yet)
NoConv        == -1

\* Python's None / a falsy result of a client function
None == 0

\* product.price of the catalog (read-only for the bot)
Price(p) == 10 * p

VARIABLES
    conv,     \* conv[u]: the ConversationHandler's state of chat u
    carts,    \* /api/carts: sequence of [documentId, telegram_id]
    items,    \* /api/cart-products: sequence of [documentId, cart, product, quantity]
    clients,  \* /api/clients: sequence of [id, telegram_id, email]
    chat,     \* chat[u]: the keyboards displayed in chat u (the tracked ones)
    ev,       \* the update handled last, and what its handler did
    out,      \* the texts and notifications the last update produced
    lastCart, \* lastCart[u]: the cart get_or_create_cart returned last for u
    inflight, \* the handlers that have begun and not returned, with their position
    issued    \* the document ids the store has given to cart-products rows

vars == <<conv, carts, items, clients, chat, ev, out, lastCart, inflight, issued>>

\* ------------------------------------------------------------ sequences
Range(s) == {s[i] : i \in DOMAIN s}

\* s without its element at index i
RemoveAt(s, i) == [j \in 1..(Len(s) - 1) |-> IF j < i THEN s[j] ELSE s[j + 1]]

\* s with its element at index i replaced by x
ReplaceAt(s, i, x) == [j \in 1..Len(s) |-> IF j = i THEN x ELSE s[j]]

\* outcome of a remote read, and of a remote write ("lost": the store applied
\* the write but the client saw a RequestException, e.g. a timeout)
ReadOutcomes  == {"ok", "fail"}
WriteOutcomes == {"ok", "fail", "lost"}

\* ------------------------------------------------- Cart Store Client
\* the carts of one telegram_id, in the order the store returns them
CartsOf(cs, tid) == SelectSeq(cs, LAMBDA c : c.telegram_id = tid)

\* the document id the store gives the next cart: carts are never deleted, so
\* the ids in use are 1..Len(cs)
NewCartId(cs) == Len(cs) + 1

\* get_or_create_cart without the lookup: a cart is POSTed on every call
GetOrCreateCartNoLookup(cs, tid, g, c) ==
    LET d       == NewCartId(cs)
        created == Append(cs, [documentId |-> d, telegram_id |-> tid])
    IN  IF g = "fail" THEN [cart |-> None, carts |-> cs, posted |-> FALSE]
        ELSE IF c = "ok"   THEN [cart |-> d, carts |-> created, posted |-> TRUE]
        ELSE IF c = "lost" THEN [cart |-> None, carts |-> created, posted |-> TRUE]
        ELSE [cart |-> None, carts |-> cs, posted |-> TRUE]

\* get_or_create_cart: GET by telegram_id (outcome g); the first cart found is
\* returned, otherwise a cart is POSTed (outcome c).  Any RequestException
\* gives None.
GetOrCreateCart(cs, tid, g, c) ==
    LET found   == CartsOf(cs, tid)
        d       == NewCartId(cs)
        created == Append(cs, [documentId |-> d, telegram_id |-> tid])
    IN  IF g = "fail" THEN [cart |-> None, carts |-> cs, posted |-> FALSE]
        ELSE IF found # <<>>
             THEN [cart |-> found[1].documentId, carts |-> cs, posted |-> FALSE]
        ELSE IF c = "ok"   THEN [cart |-> d, carts |-> created, posted |-> TRUE]
        ELSE IF c = "lost" THEN [cart |-> None, carts |-> created, posted |-> TRUE]
        ELSE [cart |-> None, carts |-> cs, posted |-> TRUE]

\* get_cart_items without the cart filter: every row of the store
GetCartItemsAll(its, cart_documentId, g) ==
    IF g = "fail" THEN <<>> ELSE its

\* get_cart_items: the rows whose cart is cart_documentId; [] on failure
GetCartItems(its, cart_documentId, g) ==
    IF g = "fail" THEN <<>>
    ELSE SelectSeq(its, LAMBDA r : r.cart = cart_documentId)

\* add_to_cart raising the quantity of a row the cart has of the product
AddToCartMerge(its, cart_documentId, product_documentId, w, d) ==
    LET row  == [documentId |-> d, cart |-> cart_documentId,
                 product |-> product_documentId, quantity |-> 1]
        same == {i \in DOMAIN its : /\ its[i].cart = cart_documentId
                                    /\ its[i].product = product_documentId}
    IN  [ok    |-> (w = "ok"),
         items |-> IF w = "fail" THEN its
                   ELSE IF same = {} THEN Append(its, row)
                   ELSE [i \in DOMAIN its |->
                           IF i \in same THEN [its[i] EXCEPT !.quantity = @ + 1]
                           ELSE its[i]]]

\* add_to_cart: POST one row with quantity 1.0 (the default); None on failure
AddToCart(its, cart_documentId, product_documentId, w, d) ==
    LET row == [documentId |-> d, cart |-> cart_documentId,
                product |-> product_documentId, quantity |-> 1]
    IN  [ok    |-> (w = "ok"),
         items |-> IF w = "fail" THEN its ELSE Append(its, row)]

\* remove_from_cart: DELETE /api/cart-products/{document_id}; telegram_id is not
\* used.  True when the store answers without error.
RemoveFromCart(its, document_id, w) ==
    [ok    |-> (w = "ok"),
     items |-> IF w = "fail" THEN its
               ELSE SelectSeq(its, LAMBDA r : r.documentId # document_id)]

\* ---------------------------------------------------- Catalog Client
\* fetch_products: the catalog, [] on failure
FetchProducts(g) ==
    IF g = "fail" THEN <<>> ELSE [i \in 1..NumProducts |-> i]

\* get_product_details: the product, None when absent or on failure
GetProductDetails(document_id, g) ==
    IF g = "fail" \/ document_id \notin Products THEN None ELSE document_id

\* --------------------------------------------- Client Registry Client
ClientsOf(cl, tid) == SelectSeq(cl, LAMBDA c : c.telegram_id = tid)

\* save_client_to_cms without the lookup: a record is POSTed on every call
SaveClientToCmsNoLookup(cl, email, tid, g, w) ==
    LET post == Append(cl, [id |-> Len(cl) + 1, telegram_id |-> tid, email |-> email])
    IN  IF g = "fail" THEN [ok |-> FALSE, clients |-> cl]
        ELSE [ok |-> (w = "ok"), clients |-> IF w = "fail" THEN cl ELSE post]

\* save_client_to_cms: GET by telegram_id (outcome g), then PUT the first
\* record found or POST a new one (outcome w).  None on any failure.
SaveClientToCms(cl, email, tid, g, w) ==
    LET existing == ClientsOf(cl, tid)
        put  == [i \in 1..Len(cl) |->
                    IF cl[i].id = existing[1].id
                    THEN [id |-> cl[i].id, telegram_id |-> tid, email |-> email]
                    ELSE cl[i]]
        post == Append(cl, [id |-> Len(cl) + 1, telegram_id |-> tid, email |-> email])
    IN  IF g = "fail" THEN [ok |-> FALSE, clients |-> cl]
        ELSE [ok      |-> (w = "ok"),
              clients |-> IF w = "fail" THEN cl
                          ELSE IF existing # <<>> THEN put ELSE post]

\* ------------------------------------------------ Presentation Builder
NoView      == [kind |-> "none",   pid |-> 0, groups |-> <<>>]
MenuView    == [kind |-> "menu",   pid |-> 0, groups |-> <<>>]
CardView(p) == [kind |-> "card",   pid |-> p, groups |-> <<>>]
EmptyView   == [kind |-> "empty",  pid |-> 0, groups |-> <<>>]
PromptView  == [kind |-> "prompt", pid |-> 0, groups |-> <<>>]

RECURSIVE GroupPids(_)
\* keys of grouped_items, in insertion order: the distinct products of the rows
GroupPids(rows) ==
    IF rows = <<>> THEN <<>>
    ELSE LET init == GroupPids(SubSeq(rows, 1, Len(rows) - 1))
             pid  == rows[Len(rows)].product
         IN  IF pid \in Range(init) THEN init ELSE Append(init, pid)

\* total_quantity counted in rows, whatever their quantity
SumQuantityRows(rows, pid) == Len(SelectSeq(rows, LAMBDA r : r.product = pid))

RECURSIVE SumQuantity(_, _)
\* total_quantity of the group pid: the sum of quantity over its rows
SumQuantity(rows, pid) ==
    IF rows = <<>> THEN 0
    ELSE (IF Head(rows).product = pid THEN Head(rows).quantity ELSE 0)
         + SumQuantity(Tail(rows), pid)

\* the document id a remove button carries: item['documentId'], where item is
\* the variable of the grouping loop, left at the last row of items
RemoveTarget(rows, pid) == rows[Len(rows)].documentId

RECURSIVE ViewTotal(_)
\* total: the sum of total_price over the groups
ViewTotal(groups) ==
    IF groups = <<>> THEN 0 ELSE Head(groups).total_price + ViewTotal(Tail(groups))

\* show_cart's view of the rows: "empty cart" with a back button, or one line
\* and one remove button per group and the total, then checkout and back buttons
BuildCartView(rows) ==
    IF rows = <<>> THEN EmptyView
    ELSE LET pids   == GroupPids(rows)
             groups == [k \in 1..Len(pids) |->
                          [pid            |-> pids[k],
                           price          |-> Price(pids[k]),
                           total_quantity |-> SumQuantity(rows, pids[k]),
                           total_price    |-> SumQuantity(rows, pids[k]) * Price(pids[k]),
                           remove         |-> RemoveTarget(rows, pids[k])]]
         IN  [kind |-> "cart", pid |-> 0, groups |-> groups,
              total |-> ViewTotal(groups)]

\* the buttons of a view, each by its callback_data <<action, id>>; a remove
\* button also has the product its label names, which is no part of callback_data
Buttons(v) ==
    CASE v.kind = "menu"   -> {<<"product", p>> : p \in Products} \cup {<<"cart", 0>>}
      [] v.kind = "card"   -> {<<"add", v.pid>>, <<"back_to_menu", 0>>}
      [] v.kind = "empty"  -> {<<"back_to_menu", 0>>}
      [] v.kind = "cart"   -> {<<"remove", v.groups[k].remove, v.groups[k].pid>> :
                                  k \in DOMAIN v.groups}
                              \cup {<<"checkout", 0>>, <<"back_to_menu", 0>>}
      [] v.kind = "prompt" -> {<<"cancel_email", 0>>}
      [] OTHER             -> {}

\* every callback_data the bot ever renders, and one it never renders
AllPayloads ==
    {<<"product", p>> : p \in Products} \cup {<<"add", p>> : p \in Products}
    \cup {<<"remove", d, p>> : d \in DocIds, p \in Products}
    \cup {<<"cart", 0>>, <<"checkout", 0>>, <<"back_to_menu", 0>>,
          <<"cancel_email", 0>>, <<"other", 0>>}

\* ------------------------------------------------- messaging transport
\* a new keyboard message, kept as the callback_data of its buttons; only the
\* MaxMsgs most recent ones are tracked
Send(ch, v) ==
    LET s == Append(ch, Buttons(v)) IN IF Len(s) > MaxMsgs THEN Tail(s) ELSE s

\* delete_message of the pressed message i (0: a message no longer tracked);
\* a failure is ignored by the callers
DeleteMsg(ch, i, t) == IF i = 0 \/ ~t THEN ch ELSE RemoveAt(ch, i)

\* edit_message_text of the pressed message i, falling back to send_message
EditMsg(ch, i, v, t) ==
    IF ~t THEN Send(ch, v) ELSE IF i = 0 THEN ch ELSE ReplaceAt(ch, i, Buttons(v))

\* ------------------------------------------------------ email pattern
\* characters by class: "w" matches \w, " " is whitespace, "!" is any other
Local == {"w", ".", "-"}

RECURSIVE LStrip(_)
LStrip(s) == IF s # <<>> /\ Head(s) = " " THEN LStrip(Tail(s)) ELSE s

RECURSIVE RStrip(_)
RStrip(s) ==
    IF s # <<>> /\ s[Len(s)] = " " THEN RStrip(SubSeq(s, 1, Len(s) - 1)) ELSE s

\* str.strip()
Strip(s) == RStrip(LStrip(s))

\* the pattern without its last part: r'[\w\.-]+@[\w\.-]+'
EmailMatchNoTld(s) ==
    \E i \in 1..Len(s) :
        /\ i + 2 <= Len(s)
        /\ \A j \in 1..i : s[j] \in Local
        /\ s[i + 1] = "@"
        /\ s[i + 2] \in Local

\* re.match(r'[\w\.-]+@[\w\.-]+\.\w+', email): the pattern matches a prefix
EmailMatch(s) ==
    \E i \in 1..Len(s), k \in 1..Len(s) :
        /\ i + 2 < k
        /\ k + 1 <= Len(s)
        /\ \A j \in 1..i : s[j] \in Local
        /\ s[i + 1] = "@"
        /\ \A j \in (i + 2)..(k - 1) : s[j] \in Local
        /\ s[k] = "."
        /\ s[k + 1] = "w"

\* the texts users type: user@example.com, another address between blanks,
\* not-an-email, an address without a dot
Texts ==
    { <<"w", "@", "w", ".", "w">>,
      <<" ", "w", ".", "w", "@", "w", ".", "w", " ">>,
      <<"w", "-", "w">>,
      <<"w", "@", "w">> }

\* ------------------------------------------------------------ handlers
\* What a handler has done so far: the state it returns, the store, the chat,
\* the messages it sent, the remote calls it made and those that failed.
Base(u) ==
    [ret |-> conv[u], carts |-> carts, items |-> items, clients |-> clients,
     chat |-> chat[u], out |-> {}, called |-> {}, failed |-> {},
     view |-> NoView, cart |-> None, raised |-> FALSE]

IdsOf(rows) == {r.documentId : r \in Range(rows)}


\* r after cart = get_or_create_cart(session, api_url, chat_id)
CartStep(r, tid, g, c) ==
    LET res == GetOrCreateCart(r.carts, tid, g, c)
    IN  [r EXCEPT !.carts = res.carts,
                  !.cart = res.cart,
                  !.called = @ \cup {"get_or_create_cart"},
                  !.failed = IF res.cart = None
                             THEN @ \cup {"get_or_create_cart"} ELSE @]

\* r after remove_from_cart(session, api_url, document_id, ...), with the
\* notification ok/no the caller answers with ("" for none)
RemoveStep(r, document_id, w, yes, no) ==
    LET res == RemoveFromCart(r.items, document_id, w)
    IN  [r EXCEPT !.items = res.items,
                  !.called = @ \cup {"remove_from_cart"},
                  !.failed = IF res.ok THEN @ ELSE @ \cup {"remove_from_cart"},
                  !.out = @ \cup (IF res.ok THEN yes ELSE no)]

\* show_cart(context, chat_id, message_id): message_id is the pressed message
\* i when edit, else None
ShowCart(r, tid, edit, i, g, c, gi, t) ==
    LET r1   == CartStep(r, tid, g, c)
        rows == GetCartItems(r1.items, r1.cart, gi)
        v    == BuildCartView(rows)
    IN  IF r1.cart = None
        THEN [r1 EXCEPT !.out = @ \cup {"cart_error"}]
        ELSE [r1 EXCEPT !.called = @ \cup {"get_cart_items"},
                        !.failed = IF gi = "fail" THEN @ \cup {"get_cart_items"} ELSE @,
                        !.view = v,
                        !.out = @ \cup {IF rows = <<>> THEN "empty_cart" ELSE "cart_view"},
                        !.chat = IF edit THEN EditMsg(@, i, v, t) ELSE Send(@, v)]

\* start beginning the chat anew: the rows of the store are dropped
startFresh(r, g) ==
    LET r1 == [r EXCEPT !.ret = HANDLE_MENU,
                        !.items = <<>>,
                        !.called = @ \cup {"fetch_products"},
                        !.failed = IF g = "fail" THEN @ \cup {"fetch_products"} ELSE @]
    IN  IF FetchProducts(g) = <<>>
        THEN [r1 EXCEPT !.out = @ \cup {"unavailable"}]
        ELSE [r1 EXCEPT !.out = @ \cup {"menu"}, !.chat = Send(@, MenuView)]

\* start returning HANDLE_MENU only after it sent the menu
startMenuOnly(r, g) ==
    LET r1 == [r EXCEPT !.called = @ \cup {"fetch_products"},
                        !.failed = IF g = "fail" THEN @ \cup {"fetch_products"} ELSE @]
    IN  IF FetchProducts(g) = <<>>
        THEN [r1 EXCEPT !.out = @ \cup {"unavailable"}]
        ELSE [r1 EXCEPT !.ret = HANDLE_MENU, !.out = @ \cup {"menu"},
                        !.chat = Send(@, MenuView)]

\* start(update, context): the catalog menu, or "temporarily unavailable"
start(r, g) ==
    LET products == FetchProducts(g)
        r1 == [r EXCEPT !.ret = HANDLE_MENU,
                        !.called = @ \cup {"fetch_products"},
                        !.failed = IF g = "fail" THEN @ \cup {"fetch_products"} ELSE @]
    IN  IF products = <<>>
        THEN [r1 EXCEPT !.out = @ \cup {"unavailable"}]
        ELSE [r1 EXCEPT !.out = @ \cup {"menu"}, !.chat = Send(@, MenuView)]

\* error_handler(update, context), called by the dispatcher when a handler
\* raised: log, notify the chat, call start.  The dispatcher drops the value
\* an error handler returns, and the ConversationHandler, whose handler raised,
\* leaves the conversation where it was.
error_handler(u, r, g) ==
    LET r1 == start([r EXCEPT !.out = @ \cup {"logged", "error"}], g)
    IN  [r1 EXCEPT !.ret = conv[u], !.raised = TRUE]

\* the back_to_menu branch of handle_menu and of handle_cart: the catalog menu
\* replaces the pressed message i, or "temporarily unavailable" is sent
BackToMenu(r, i, g, t) ==
    LET r1 == [r EXCEPT !.called = @ \cup {"fetch_products"},
                        !.failed = IF g = "fail" THEN @ \cup {"fetch_products"} ELSE @]
    IN  IF FetchProducts(g) = <<>>
        THEN [r1 EXCEPT !.out = @ \cup {"unavailable"}]
        ELSE [r1 EXCEPT !.out = @ \cup {"menu"},
                        !.chat = Send(DeleteMsg(@, i, t), MenuView)]

\* the last statement of handle_menu: return HANDLE_MENU
MenuDefault(u) == [Base(u) EXCEPT !.ret = HANDLE_MENU]

\* handle_menu(update, context) for callback_data <<act, arg>> of message i
handle_menu(u, i, act, arg, g, c, gi, w, dl, t, gm) ==
    LET r == MenuDefault(u) IN
    CASE act = "product" ->
            IF GetProductDetails(arg, g) = None
            THEN [r EXCEPT !.out = {"not_found"},
                           !.called = {"get_product_details"},
                           !.failed = IF g = "fail" THEN {"get_product_details"} ELSE {}]
            ELSE [r EXCEPT !.out = {"card"},
                           !.called = {"get_product_details"},
                           !.chat = Send(DeleteMsg(@, i, t), CardView(arg))]
      [] act = "add" ->
            LET r1  == CartStep(r, u, g, c)
                res == AddToCart(r1.items, r1.cart, arg, w, dl)
            IN  IF r1.cart # None
                THEN [r1 EXCEPT !.items = res.items,
                                !.called = @ \cup {"add_to_cart"},
                                !.failed = IF res.ok THEN @ ELSE @ \cup {"add_to_cart"},
                                !.out = {"added"}]
                ELSE [r1 EXCEPT !.out = {"add_error"}]
      [] act = "cart" ->
            [ShowCart(r, u, FALSE, i, g, c, gi, t) EXCEPT !.ret = HANDLE_CART]
      [] act = "remove" ->
            ShowCart(RemoveStep(r, arg, w, {"removed"}, {"remove_error"}),
                     u, TRUE, i, g, c, gi, t)
      [] act = "checkout" ->
            LET r1 == CartStep(r, u, g, c)
            IN  IF r1.cart # None
                THEN start([RemoveStep(r1, r1.cart, w, {}, {})
                               EXCEPT !.out = @ \cup {"order_placed"}], gm)
                ELSE r1
      [] act = "back_to_menu" ->
            [BackToMenu(r, i, g, t) EXCEPT !.ret = HANDLE_MENU]
      [] OTHER -> r

\* handle_cart ending with return START
CartDefaultStart(u) == [Base(u) EXCEPT !.ret = START]

\* the last statement of handle_cart: return HANDLE_CART
CartDefault(u) == [Base(u) EXCEPT !.ret = HANDLE_CART]

\* handle_cart(update, context) for callback_data <<act, arg>> of message i;
\* te is what edit_message_text does in safe_edit_message
handle_cart(u, i, act, arg, g, c, gi, w, t, te) ==
    LET r == CartDefault(u) IN
    CASE act = "remove" ->
            ShowCart(RemoveStep(r, arg, w, {"removed"}, {"remove_error"}),
                     u, TRUE, i, g, c, gi, t)
      [] act = "checkout" ->
            [r EXCEPT !.ret = WAITING_EMAIL,
                      !.out = IF te = "bad" THEN {} ELSE {"prompt"},
                      !.chat = CASE te = "ok"   -> EditMsg(@, i, PromptView, TRUE)
                                 [] te = "gone" -> Send(@, PromptView)
                                 [] OTHER       -> @]
      [] act = "back_to_menu" ->
            [BackToMenu(r, i, g, t) EXCEPT !.ret = HANDLE_MENU]
      [] OTHER -> r

\* the last statement of handle_email: return WAITING_EMAIL
EmailDefault(u) == [Base(u) EXCEPT !.ret = WAITING_EMAIL]

\* handle_email(update, context) for a text message, up to its first reply:
\* the pattern check, then save_client_to_cms and, when that succeeded,
\* get_or_create_cart and remove_from_cart of the cart's document id
EmailRemote(u, text, g, wc, gi, c, w) ==
    LET r     == Base(u)
        email == Strip(text)
        saved == SaveClientToCms(r.clients, email, u, g, wc)
        r1    == [r EXCEPT !.clients = saved.clients,
                           !.called = {"save_client_to_cms"},
                           !.failed = IF saved.ok THEN {} ELSE {"save_client_to_cms"}]
        r2    == CartStep(r1, u, gi, c)
    IN  IF ~EmailMatch(email) THEN r
        ELSE IF ~saved.ok THEN r1
        ELSE IF r2.cart # None THEN RemoveStep(r2, r2.cart, w, {}, {})
        ELSE r2

\* handle_email asking again for the address when the upsert failed
handle_email_textRetry(u, text, g, wc, gi, c, w, gm) ==
    LET r == EmailRemote(u, text, g, wc, gi, c, w)
    IN  IF ~EmailMatch(Strip(text))
        THEN [r EXCEPT !.out = {"email_invalid"}, !.ret = WAITING_EMAIL]
        ELSE IF "save_client_to_cms" \in r.failed
             THEN [r EXCEPT !.out = @ \cup {"save_failed"}, !.ret = WAITING_EMAIL]
        ELSE start([r EXCEPT !.out = @ \cup {"thanks"}], gm)

\* handle_email(update, context) for a text message: a text that does not
\* match is answered and the state stays; otherwise the result of the upsert is
\* answered and start gives the next state
handle_email_text(u, text, g, wc, gi, c, w, gm) ==
    LET r == EmailRemote(u, text, g, wc, gi, c, w)
    IN  IF ~EmailMatch(Strip(text))
        THEN [r EXCEPT !.out = {"email_invalid"}, !.ret = WAITING_EMAIL]
        ELSE IF "save_client_to_cms" \in r.failed
             THEN start([r EXCEPT !.out = @ \cup {"save_failed"}], gm)
        ELSE start([r EXCEPT !.out = @ \cup {"thanks"}], gm)

\* handle_email without its cancel_email branch
handle_email_queryNoCancel(u, act, g) == EmailDefault(u)

\* handle_email(update, context) for callback_data <<act, arg>>
handle_email_query(u, act, g) ==
    LET r == EmailDefault(u)
    IN  IF act = "cancel_email"
        THEN start([r EXCEPT !.out = {"cancelled"}], g)
        ELSE r

\* ---------------------------------------------------------- dispatcher
\* an update: the handler the ConversationHandler gives it to ("none": no
\* handler takes it), the branch of the handler it takes, the id in its
\* callback_data, the product named on the pressed button, whether the button
\* is one of a tracked keyboard, and the text of a message
Update(handler, act, arg, label, shown, text) ==
    [handler |-> handler, act |-> act, arg |-> arg, label |-> label,
     shown |-> shown, text |-> text]

NoEvent ==
    [u |-> 0, handler |-> "init", act |-> "", arg |-> 0, label |-> 0,
     pre |-> NoConv, shown |-> FALSE, honest |-> TRUE, raised |-> FALSE,
     called |-> {}, failed |-> {}, view |-> NoView, email |-> <<>>,
     valid |-> FALSE, flow |-> 0]

\* how far the update just handled takes its user along the checkout flow:
\* add-to-cart in MENU (1), open cart (2), checkout (3), a matching email (4),
\* each the user's next update after the previous one, with no failed call
Flow(u, handler, act, valid, r) ==
    LET clean == r.failed = {} /\ ~r.raised
        next  == ev.u = u /\ clean
    IN  CASE handler = "handle_menu" /\ act = "add" /\ clean               -> 1
          [] handler = "handle_menu" /\ act = "cart" /\ next /\ ev.flow = 1 -> 2
          [] handler = "handle_cart" /\ act = "checkout" /\ next
             /\ ev.flow = 2 /\ "prompt" \in r.out                          -> 3
          [] handler = "handle_email" /\ act = "text" /\ next /\ valid
             /\ ev.flow = 3                                                -> 4
          [] OTHER                                                         -> 0

\* the ConversationHandler stores the state the handler returned, and the store
\* follows the handler's result r.  track "all": the chat's keyboards and the
\* record of the update are kept; "keys": the keyboards, only updates whose button
\* is displayed in the chat are delivered, and of the update its chat, its action
\* and whether its handler raised are kept; "none": only the update's chat.
Commit(track, u, e, r) ==
    /\ track = "keys" => e.shown
    /\ conv' = [conv EXCEPT ![u] = r.ret]
    /\ carts' = r.carts
    /\ items' = r.items
    /\ clients' = r.clients
    /\ lastCart' = IF r.cart # None THEN [lastCart EXCEPT ![u] = r.cart] ELSE lastCart
    /\ inflight' = inflight
    /\ issued' = issued \cup IdsOf(r.items)
    /\ chat' = IF track = "none" THEN chat ELSE [chat EXCEPT ![u] = r.chat]
    /\ out' = IF track = "all" THEN r.out ELSE {}
    /\ ev' = IF track = "all"
             THEN [u |-> u, handler |-> e.handler, act |-> e.act, arg |-> e.arg,
                   label |-> e.label, pre |-> conv[u], shown |-> e.shown,
                   honest |-> (ev.honest /\ e.shown), raised |-> r.raised,
                   called |-> r.called, failed |-> r.failed, view |-> r.view,
                   email |-> Strip(e.text), valid |-> EmailMatch(Strip(e.text)),
                   flow |-> Flow(u, e.handler, e.act, EmailMatch(Strip(e.text)), r)]
             ELSE IF track = "keys"
             THEN [NoEvent EXCEPT !.u = u, !.act = e.act, !.shown = e.shown,
                                 !.raised = r.raised]
             ELSE [NoEvent EXCEPT !.u = u]

\* the callback queries chat u can send: a button of a tracked message i, or
\* (i = 0) any callback_data, from a keyboard that is no longer tracked
Presses(u) ==
    {q \in (0..Len(chat[u])) \X AllPayloads :
        q[1] = 0 \/ q[2] \in chat[u][q[1]]}

\* the outcomes <<g, c>> of get_or_create_cart for u that differ in effect: the
\* POST is made only when the GET succeeds and finds no cart
CartOutcomes(u) ==
    {<<"fail", "ok">>} \cup
    (IF CartsOf(carts, u) # <<>> THEN {<<"ok", "ok">>}
     ELSE {<<"ok", c>> : c \in WriteOutcomes})

\* the document id the store gives the next cart-products row: an id it has
\* given to no row before
NewDocId == NumUsers + Cardinality(issued) + 1

\* the outcomes <<w, d>> of a POST of a cart-products row: the store gives the
\* row the document id d; with every id given out the POST fails
AddOutcomes ==
    {<<"fail", 0>>} \cup
    {<<w, NewDocId>> : w \in IF NewDocId \in DocIds THEN {"ok", "lost"} ELSE {}}

Init ==
    /\ conv = [u \in Users |-> NoConv]
    /\ carts = <<>>
    /\ items = <<>>
    /\ clients = <<>>
    /\ chat = [u \in Users |-> <<>>]
    /\ ev = NoEvent
    /\ out = {}
    /\ lastCart = [u \in Users |-> None]
    /\ inflight = <<>>
    /\ issued = {}

\* /start: entry point, and fallback in every state
Start(u, track) ==
    \E g \in ReadOutcomes :
        Commit(track, u, Update("start", "start", 0, 0, TRUE, <<>>), start(Base(u), g))

\* CallbackQueryHandler(handle_menu) in HANDLE_MENU, one action per branch
MenuProduct(u, track) ==
    /\ conv[u] = HANDLE_MENU
    /\ \E q \in Presses(u), g \in ReadOutcomes, t \in BOOLEAN :
        /\ q[2][1] = "product"
        /\ g = "fail" => t
        /\ Commit(track, u, Update("handle_menu", "product", q[2][2], 0, q[1] > 0, <<>>),
                  handle_menu(u, q[1], "product", q[2][2],
                              g, "ok", "ok", "ok", 0, t, "ok"))

MenuAdd(u, track) ==
    /\ conv[u] = HANDLE_MENU
    /\ \E q \in Presses(u), co \in CartOutcomes(u), ao \in AddOutcomes :
        /\ q[2][1] = "add"
        /\ GetOrCreateCart(carts, u, co[1], co[2]).cart = None => ao = <<"fail", 0>>
        /\ Commit(track, u, Update("handle_menu", "add", q[2][2], 0, q[1] > 0, <<>>),
                  handle_menu(u, q[1], "add", q[2][2],
                              co[1], co[2], "ok", ao[1], ao[2], TRUE, "ok"))

MenuCart(u, track) ==
    /\ conv[u] = HANDLE_MENU
    /\ \E q \in Presses(u), co \in CartOutcomes(u), gi \in ReadOutcomes :
        /\ q[2][1] = "cart"
        /\ GetOrCreateCart(carts, u, co[1], co[2]).cart = None => gi = "ok"
        /\ Commit(track, u, Update("handle_menu", "cart", 0, 0, q[1] > 0, <<>>),
                  handle_menu(u, q[1], "cart", 0,
                              co[1], co[2], gi, "ok", 0, TRUE, "ok"))

MenuRemove(u, track) ==
    /\ conv[u] = HANDLE_MENU
    /\ \E q \in Presses(u), co \in CartOutcomes(u), gi \in ReadOutcomes,
          w \in WriteOutcomes, t \in BOOLEAN :
        /\ q[2][1] = "remove"
        /\ GetOrCreateCart(carts, u, co[1], co[2]).cart = None => gi = "ok" /\ t
        /\ Commit(track, u, Update("handle_menu", "remove", q[2][2], q[2][3], q[1] > 0, <<>>),
                  handle_menu(u, q[1], "remove", q[2][2],
                              co[1], co[2], gi, w, 0, t, "ok"))

MenuCheckout(u, track) ==
    /\ conv[u] = HANDLE_MENU
    /\ \E q \in Presses(u), co \in CartOutcomes(u), w \in WriteOutcomes,
          gm \in ReadOutcomes :
        /\ q[2][1] = "checkout"
        /\ GetOrCreateCart(carts, u, co[1], co[2]).cart = None => w = "ok" /\ gm = "ok"
        /\ Commit(track, u, Update("handle_menu", "checkout", 0, 0, q[1] > 0, <<>>),
                  handle_menu(u, q[1], "checkout", 0,
                              co[1], co[2], "ok", w, 0, TRUE, gm))

MenuBack(u, track) ==
    /\ conv[u] = HANDLE_MENU
    /\ \E q \in Presses(u), g \in ReadOutcomes, t \in BOOLEAN :
        /\ q[2][1] = "back_to_menu"
        /\ g = "fail" => t
        /\ Commit(track, u, Update("handle_menu", "back_to_menu", 0, 0, q[1] > 0, <<>>),
                  handle_menu(u, q[1], "back_to_menu", 0,
                              g, "ok", "ok", "ok", 0, t, "ok"))

MenuOther(u, track) ==
    /\ conv[u] = HANDLE_MENU
    /\ \E q \in Presses(u) :
        /\ q[2][1] \in {"cancel_email", "other"}
        /\ Commit(track, u, Update("handle_menu", "other", 0, 0, q[1] > 0, <<>>),
                  handle_menu(u, q[1], q[2][1], 0,
                              "ok", "ok", "ok", "ok", 0, TRUE, "ok"))

\* CallbackQueryHandler(handle_cart) in HANDLE_CART
CartRemove(u, track) ==
    /\ conv[u] = HANDLE_CART
    /\ \E q \in Presses(u), co \in CartOutcomes(u), gi \in ReadOutcomes,
          w \in WriteOutcomes, t \in BOOLEAN :
        /\ q[2][1] = "remove"
        /\ GetOrCreateCart(carts, u, co[1], co[2]).cart = None => gi = "ok" /\ t
        /\ Commit(track, u, Update("handle_cart", "remove", q[2][2], q[2][3], q[1] > 0, <<>>),
                  handle_cart(u, q[1], "remove", q[2][2],
                              co[1], co[2], gi, w, t, "ok"))

CartCheckout(u, track) ==
    /\ conv[u] = HANDLE_CART
    /\ \E q \in Presses(u), te \in {"ok", "gone", "bad"} :
        /\ q[2][1] = "checkout"
        /\ Commit(track, u, Update("handle_cart", "checkout", 0, 0, q[1] > 0, <<>>),
                  handle_cart(u, q[1], "checkout", 0,
                              "ok", "ok", "ok", "ok", TRUE, te))

CartBack(u, track) ==
    /\ conv[u] = HANDLE_CART
    /\ \E q \in Presses(u), g \in ReadOutcomes, t \in BOOLEAN :
        /\ q[2][1] = "back_to_menu"
        /\ g = "fail" => t
        /\ Commit(track, u, Update("handle_cart", "back_to_menu", 0, 0, q[1] > 0, <<>>),
                  handle_cart(u, q[1], "back_to_menu", 0,
                              g, "ok", "ok", "ok", t, "ok"))

CartOther(u, track) ==
    /\ conv[u] = HANDLE_CART
    /\ \E q \in Presses(u) :
        /\ q[2][1] \in {"product", "add", "cart", "cancel_email", "other"}
        /\ Commit(track, u, Update("handle_cart", "other", 0, 0, q[1] > 0, <<>>),
                  handle_cart(u, q[1], q[2][1], q[2][2],
                              "ok", "ok", "ok", "ok", TRUE, "ok"))

\* the outcomes <<g, wc, gi, c, w>> of the remote calls of handle_email for a
\* text that differ in effect
EmailOutcomes(u, text) ==
    IF ~EmailMatch(Strip(text)) THEN {<<"ok", "ok", "ok", "ok", "ok">>}
    ELSE {<<"fail", "ok", "ok", "ok", "ok">>}
         \cup {<<"ok", wc, "ok", "ok", "ok">> : wc \in {"fail", "lost"}}
         \cup UNION {{<<"ok", "ok", co[1], co[2], w>> :
                         w \in IF GetOrCreateCart(carts, u, co[1], co[2]).cart = None
                               THEN {"ok"} ELSE WriteOutcomes} :
                     co \in CartOutcomes(u)}

\* MessageHandler(Filters.text & ~Filters.command, handle_email) in WAITING_EMAIL
EmailText(u, track) ==
    /\ conv[u] = WAITING_EMAIL
    /\ \E text \in Texts, gm \in ReadOutcomes :
        \E o \in EmailOutcomes(u, text) :
            /\ ~EmailMatch(Strip(text)) => gm = "ok"
            /\ Commit(track, u, Update("handle_email", "text", 0, 0, TRUE, text),
                      handle_email_text(u, text, o[1], o[2], o[3], o[4], o[5], gm))

\* CallbackQueryHandler(handle_email) in WAITING_EMAIL
EmailCancel(u, track) ==
    /\ conv[u] = WAITING_EMAIL
    /\ \E q \in Presses(u), g \in ReadOutcomes :
        /\ q[2][1] = "cancel_email"
        /\ Commit(track, u, Update("handle_email", "cancel_email", 0, 0, q[1] > 0, <<>>),
                  handle_email_query(u, "cancel_email", g))

EmailOther(u, track) ==
    /\ conv[u] = WAITING_EMAIL
    /\ \E q \in Presses(u) :
        /\ q[2][1] # "cancel_email"
        /\ Commit(track, u, Update("handle_email", "other", 0, 0, q[1] > 0, <<>>),
                  handle_email_query(u, q[2][1], "ok"))

\* an update no handler of the ConversationHandler takes: a callback query
\* before /start, a text message outside WAITING_EMAIL
Ignored(u, track) ==
    \/ /\ conv[u] = NoConv
       /\ \E q \in Presses(u) :
            Commit(track, u, Update("none", "query", 0, 0, q[1] > 0, <<>>), Base(u))
    \/ /\ conv[u] # WAITING_EMAIL
       /\ \E text \in Texts :
            Commit(track, u, Update("none", "text", 0, 0, TRUE, <<>>), Base(u))

\* a handler whose first Telegram call raises (query.answer() of a callback
\* handler, send_message of start, reply_text of handle_email): the remote
\* calls made before it stand, and the dispatcher calls error_handler
CallbackRaises(u, track) ==
    /\ conv[u] \in {HANDLE_MENU, HANDLE_CART, WAITING_EMAIL}
    /\ \E q \in Presses(u), ge \in ReadOutcomes :
        Commit(track, u,
               Update(CASE conv[u] = HANDLE_MENU -> "handle_menu"
                        [] conv[u] = HANDLE_CART -> "handle_cart"
                        [] OTHER                 -> "handle_email",
                      "query", 0, 0, q[1] > 0, <<>>),
               error_handler(u, Base(u), ge))

StartRaises(u, track) ==
    \E g \in ReadOutcomes, ge \in ReadOutcomes :
        Commit(track, u, Update("start", "start", 0, 0, TRUE, <<>>),
               error_handler(u, [start(Base(u), g) EXCEPT !.out = {},
                                                          !.chat = chat[u]], ge))

EmailTextRaises(u, track) ==
    /\ conv[u] = WAITING_EMAIL
    /\ \E text \in Texts, ge \in ReadOutcomes :
        \E o \in EmailOutcomes(u, text) :
            Commit(track, u, Update("handle_email", "text", 0, 0, TRUE, text),
                   error_handler(u, EmailRemote(u, text, o[1], o[2], o[3], o[4], o[5]), ge))

\* the updates of the chats in active, handled one at a time; track says what
\* is kept of the keyboards the bot sends and of each update; with "none" every
\* callback query is one of a keyboard that is not tracked
NextOf(active, track) ==
    \E u \in active :
        \/ Start(u, track)
        \/ MenuProduct(u, track)
        \/ MenuAdd(u, track)
        \/ MenuCart(u, track)
        \/ MenuRemove(u, track)
        \/ MenuCheckout(u, track)
        \/ MenuBack(u, track)
        \/ MenuOther(u, track)
        \/ CartRemove(u, track)
        \/ CartCheckout(u, track)
        \/ CartBack(u, track)
        \/ CartOther(u, track)
        \/ EmailText(u, track)
        \/ EmailCancel(u, track)
        \/ EmailOther(u, track)
        \/ Ignored(u, track)
        \/ CallbackRaises(u, track)
        \/ StartRaises(u, track)
        \/ EmailTextRaises(u, track)

\* one chat, its keyboards tracked and its updates recorded
Next == NextOf({Solo}, "all")

Spec == Init /\ [][Next]_vars

\* every chat, keyboards not tracked, of an update only the chat recorded
NextUsers == NextOf(Users, "none")

SpecUsers == Init /\ [][NextUsers]_vars

\* the carts a chat's cart-products can hold when the bot starts: up to MaxRows
\* rows of cart 1, of any products and quantities
ViewRows ==
    UNION {{[i \in 1..n |-> [documentId |-> NumUsers + i, cart |-> 1,
                             product |-> f[i][1], quantity |-> f[i][2]]] :
               f \in [1..n -> Products \X (1..MaxQty)]} : n \in 0..MaxRows}

\* the bot started over a store that holds a cart of Solo with such rows
InitView ==
    /\ conv = [u \in Users |-> NoConv]
    /\ carts = <<[documentId |-> 1, telegram_id |-> Solo]>>
    /\ items \in ViewRows
    /\ clients = <<>>
    /\ chat = [u \in Users |-> <<>>]
    /\ ev = NoEvent
    /\ out = {}
    /\ lastCart = [u \in Users |-> None]
    /\ inflight = <<>>
    /\ issued = IdsOf(items)

\* Solo looks at the cart: /start, open cart, back to the menu
NextView ==
    \/ Start(Solo, "all")
    \/ MenuCart(Solo, "all")
    \/ CartBack(Solo, "all")

SpecView == InitView /\ [][NextView]_vars

\* handlers run async: an update is taken while another is being handled
DispatcherAsync == Len(inflight) < 2

\* the dispatcher's thread takes an update from the queue when process_update
\* of the one before has returned: no handler runs async
DispatcherFree == inflight = <<>>

\* what a handler in flight leaves of the record of the last update
StepRecord(u) ==
    /\ ev' = [NoEvent EXCEPT !.u = u]
    /\ out' = {}
    /\ UNCHANGED <<chat, clients>>

\* the dispatcher gives an add_<p> callback query of chat u to handle_menu
TakeAdd(u) ==
    /\ DispatcherFree
    /\ conv[u] = HANDLE_MENU
    /\ \E p \in Products :
          inflight' = Append(inflight, [u |-> u, pc |-> "get", product |-> p,
                                        cart |-> None])
    /\ StepRecord(u)
    /\ UNCHANGED <<conv, carts, items, lastCart, issued>>

\* get_or_create_cart of the handler k in flight, the GET: the first cart found
\* is returned, with none found the POST is next, a failure gives None
CartGet(k) ==
    LET h     == inflight[k]
        found == CartsOf(carts, h.u)
    IN  /\ h.pc = "get"
        /\ \E g \in ReadOutcomes :
              /\ inflight' = [inflight EXCEPT ![k] =
                    IF g = "fail" THEN [h EXCEPT !.pc = "answer"]
                    ELSE IF found # <<>>
                         THEN [h EXCEPT !.pc = "add", !.cart = found[1].documentId]
                    ELSE [h EXCEPT !.pc = "post"]]
              /\ lastCart' = IF g = "ok" /\ found # <<>>
                             THEN [lastCart EXCEPT ![h.u] = found[1].documentId]
                             ELSE lastCart
        /\ StepRecord(h.u)
        /\ UNCHANGED <<conv, carts, items, issued>>

\* get_or_create_cart of the handler k in flight, the POST
CartPost(k) ==
    LET h == inflight[k]
        d == NewCartId(carts)
    IN  /\ h.pc = "post"
        /\ \E c \in WriteOutcomes :
              /\ carts' = IF c = "fail" THEN carts
                          ELSE Append(carts, [documentId |-> d, telegram_id |-> h.u])
              /\ inflight' = [inflight EXCEPT ![k] =
                    IF c = "ok" THEN [h EXCEPT !.pc = "add", !.cart = d]
                    ELSE [h EXCEPT !.pc = "answer"]]
              /\ lastCart' = IF c = "ok" THEN [lastCart EXCEPT ![h.u] = d] ELSE lastCart
        /\ StepRecord(h.u)
        /\ UNCHANGED <<conv, items, issued>>

\* add_to_cart of the handler k in flight
RowPost(k) ==
    LET h == inflight[k]
    IN  /\ h.pc = "add"
        /\ \E ao \in AddOutcomes :
              items' = AddToCart(items, h.cart, h.product, ao[1], ao[2]).items
        /\ issued' = issued \cup IdsOf(items')
        /\ inflight' = [inflight EXCEPT ![k] = [h EXCEPT !.pc = "answer"]]
        /\ StepRecord(h.u)
        /\ UNCHANGED <<conv, carts, lastCart>>

\* the handler k in flight answers the query and returns HANDLE_MENU, which the
\* ConversationHandler stores
Return(k) ==
    LET h == inflight[k]
    IN  /\ h.pc = "answer"
        /\ conv' = [conv EXCEPT ![h.u] = HANDLE_MENU]
        /\ inflight' = RemoveAt(inflight, k)
        /\ StepRecord(h.u)
        /\ UNCHANGED <<carts, items, lastCart, issued>>

\* add-to-cart handled remote call by remote call, for every chat
NextSteps ==
    \/ \E u \in Users : DispatcherFree /\ Start(u, "none")
    \/ \E u \in Users : TakeAdd(u)
    \/ \E k \in DOMAIN inflight : CartGet(k)
    \/ \E k \in DOMAIN inflight : CartPost(k)
    \/ \E k \in DOMAIN inflight : RowPost(k)
    \/ \E k \in DOMAIN inflight : Return(k)

SpecSteps == Init /\ [][NextSteps]_vars

\* every chat, keyboards tracked, each callback query a button of a keyboard
\* displayed in its chat
NextPair ==
    \E u \in Users :
        \/ Start(u, "keys")
        \/ MenuProduct(u, "keys")
        \/ MenuAdd(u, "keys")
        \/ MenuCart(u, "keys")
        \/ MenuRemove(u, "keys")
        \/ MenuCheckout(u, "keys")
        \/ MenuBack(u, "keys")
        \/ CartRemove(u, "keys")
        \/ CartCheckout(u, "keys")
        \/ CartBack(u, "keys")
        \/ EmailCancel(u, "keys")

SpecPair == Init /\ [][NextPair]_vars

\* ------------------------------------------------------------- claims
\* the cart-product rows of the carts of chat u
RowsOf(cs, its, u) ==
    SelectSeq(its, LAMBDA r : r.cart \in IdsOf(CartsOf(cs, u)))

\* the rows of a product among rows
RowsOfProduct(rows, pid) == SelectSeq(rows, LAMBDA r : r.product = pid)

Defined == {HANDLE_MENU, HANDLE_CART, WAITING_EMAIL}

\* the update just recorded was given to a handler, which returned
Handled == ev.handler \in {"start", "handle_menu", "handle_cart", "handle_email"}
           /\ ~ev.raised

\* C1: the conversation state of every chat that has one, and of the chat whose
\* update a handler has just handled, is HANDLE_MENU, HANDLE_CART or
\* WAITING_EMAIL, whatever the updates and the outcomes of the remote calls.
C1_StateDefined ==
    \A u \in Users :
        (conv[u] # NoConv \/ (Handled /\ ev.u = u)) => conv[u] \in Defined

\* C1 witness: a callback query of no displayed keyboard, with a payload
\* handle_email has no branch for, was handled in WAITING_EMAIL and left it so
C1_Witness ==
    /\ ev.handler = "handle_email" /\ ev.act = "other" /\ ~ev.shown
    /\ conv[ev.u] = WAITING_EMAIL

\* C2: after add-to-cart, open cart, checkout and a matching email, the user's
\* updates in this order from MENU with every remote call succeeding, the user's
\* cart has no rows, a client record of the user holds that email, and the
\* state is HANDLE_MENU.
C2_CheckoutClearsCart ==
    ev.flow = 4 =>
        /\ RowsOf(carts, items, ev.u) = <<>>
        /\ \E i \in DOMAIN clients :
              clients[i].telegram_id = ev.u /\ clients[i].email = ev.email
        /\ conv[ev.u] = HANDLE_MENU

\* C3: in every cart view show_cart renders, the remove button of each group
\* carries the document id of the first row of that group; and a remove update
\* from such a button, its DELETE succeeding, deletes exactly one row, a row of
\* the group the button names.
C3_RemoveTargetsGroup ==
    [][ /\ ev'.view.kind = "cart" =>
              \A k \in DOMAIN ev'.view.groups :
                  LET g    == ev'.view.groups[k]
                      rows == RowsOfProduct(RowsOf(carts', items', ev'.u), g.pid)
                  IN  rows # <<>> /\ g.remove = rows[1].documentId
        /\ ( /\ ev'.handler = "handle_cart" /\ ev'.act = "remove"
             /\ ev'.shown /\ ~ev'.raised
             /\ "remove_from_cart" \notin ev'.failed )
           => \E i \in DOMAIN items :
                 /\ items' = RemoveAt(items, i)
                 /\ items[i].product = ev'.label
                 /\ items[i].cart \in IdsOf(CartsOf(carts, ev'.u))
      ]_vars

\* rows without the rows of a product
WithoutProduct(rows, pid) == SelectSeq(rows, LAMBDA r : r.product # pid)

\* C4: in HANDLE_CART, the remove button of a group of one row, every remote
\* call succeeding, removes that group and no other: the view rendered anew is
\* the view of the other rows, the "empty cart" view without a checkout button
\* when none is left, and the state stays HANDLE_CART.
C4_SingleRowGroupRemoved ==
    [][ LET u     == ev'.u
            rows  == RowsOf(carts, items, u)
            after == RowsOf(carts', items', u)
        IN  ( /\ ev'.handler = "handle_cart" /\ ev'.act = "remove"
              /\ ev'.shown /\ ~ev'.raised /\ ev'.failed = {}
              /\ Len(RowsOfProduct(rows, ev'.label)) = 1 )
            => /\ after = WithoutProduct(rows, ev'.label)
               /\ ev'.view = BuildCartView(after)
               /\ after = <<>> => /\ ev'.view = EmptyView
                                  /\ <<"checkout", 0>> \notin Buttons(ev'.view)
               /\ conv'[u] = HANDLE_CART
      ]_vars

\* C5: no checkout is handled in HANDLE_CART while the user's cart has no rows,
\* for a user all of whose callback queries were buttons of displayed keyboards.
C5_NoCheckoutOfEmptyCart ==
    ~ ( /\ ev.handler = "handle_cart" /\ ev.act = "checkout"
        /\ ev.honest /\ ~ev.raised
        /\ RowsOf(carts, items, ev.u) = <<>> )

\* C6: when get_or_create_cart fails in add-to-cart or open cart (HANDLE_MENU)
\* or in the re-render after remove (HANDLE_CART), the user gets an error
\* notification and the state after the update is the state before it.
C6_CartFailureStays ==
    ( /\ Handled
      /\ "get_or_create_cart" \in ev.failed
      /\ \/ ev.handler = "handle_menu" /\ ev.act \in {"add", "cart"}
         \/ ev.handler = "handle_cart" /\ ev.act = "remove" )
    => /\ out \cap {"cart_error", "add_error"} # {}
       /\ conv[ev.u] = ev.pre

\* the texts that tell the user of an error
ErrorTexts ==
    {"unavailable", "not_found", "cart_error", "add_error", "remove_error",
     "save_failed", "error"}

\* C7: whenever a remote call fails in an update a handler of HANDLE_MENU,
\* HANDLE_CART or WAITING_EMAIL has handled, the state after the update is the
\* state before it and an error text is sent to the user.
C7_FailureStays ==
    ( /\ Handled /\ ev.handler # "start"
      /\ ev.failed # {} )
    => /\ conv[ev.u] = ev.pre
       /\ out \cap ErrorTexts # {}

\* user@example.com, not-an-email, and an address without a dot
UserAtExample == <<"w", "@", "w", ".", "w">>
NotAnEmail    == <<"w", "-", "w">>
NoDot         == <<"w", "@", "w">>

\* C8: in WAITING_EMAIL a text that does not match the pattern (not-an-email
\* and user@example without a dot do not, user@example.com does) is answered
\* with the re-prompt, leaves the state WAITING_EMAIL and makes no remote call:
\* carts, rows and clients are unchanged; a text that matches moves the
\* conversation to HANDLE_MENU.
C8_EmailValidation ==
    [][ ( ev'.handler = "handle_email" /\ ev'.act = "text" /\ ~ev'.raised ) =>
          /\ ev'.email \in {NotAnEmail, NoDot} => ~ev'.valid
          /\ ev'.email = UserAtExample => ev'.valid
          /\ ~ev'.valid => /\ out' = {"email_invalid"}
                           /\ conv'[ev'.u] = WAITING_EMAIL
                           /\ ev'.called = {}
                           /\ <<carts', items', clients'>> = <<carts, items, clients>>
          /\ ev'.valid => conv'[ev'.u] = HANDLE_MENU
      ]_vars

\* C8 witness: not-an-email was typed in WAITING_EMAIL with rows in the cart
\* and was answered with the re-prompt
C8_Witness ==
    /\ ev.handler = "handle_email" /\ ev.act = "text" /\ ~ev.raised
    /\ ev.email = NotAnEmail
    /\ "email_invalid" \in out
    /\ RowsOf(carts, items, ev.u) # <<>>
    /\ conv[ev.u] = WAITING_EMAIL

\* C9: when the handler of an update raises in HANDLE_MENU, HANDLE_CART or
\* WAITING_EMAIL, the error is logged, the user is notified, and the state after
\* the update is HANDLE_MENU.
C9_ErrorResetsToMenu ==
    (ev.raised /\ ev.pre \in Defined) =>
        /\ {"logged", "error"} \subseteq out
        /\ conv[ev.u] = HANDLE_MENU

\* C10: the store holds at most one cart per telegram_id; a cart
\* get_or_create_cart returns for a chat is the cart it returned for that chat
\* before; and no update deletes or changes a cart.
C10_OneCartPerUser ==
    [][ /\ \A u \in Users : Len(CartsOf(carts', u)) <= 1
        /\ \A u \in Users : lastCart[u] # None => lastCart'[u] = lastCart[u]
        /\ Len(carts) <= Len(carts')
        /\ SubSeq(carts', 1, Len(carts)) = carts
      ]_vars

\* C10 witness: every chat has a cart, get_or_create_cart has returned each,
\* and rows are in the store
C10_Witness ==
    /\ \A u \in Users : Len(CartsOf(carts, u)) = 1 /\ lastCart[u] # None
    /\ items # <<>>

\* the addresses typed that match the pattern
Emails == {Strip(t) : t \in {x \in Texts : EmailMatch(Strip(x))}}

\* C11: the store holds at most one client record per telegram_id: no update
\* deletes a record or changes whose it is, a record is created only for a chat
\* that had none, and save_client_to_cms with a failed lookup changes nothing.
C11_OneClientPerUser ==
    [][ /\ \A u \in Users : Len(ClientsOf(clients', u)) <= 1
        /\ Len(clients) <= Len(clients')
        /\ \A i \in DOMAIN clients :
              /\ clients'[i].id = clients[i].id
              /\ clients'[i].telegram_id = clients[i].telegram_id
        /\ Len(clients) < Len(clients') =>
              /\ Len(clients') = Len(clients) + 1
              /\ ClientsOf(clients, clients'[Len(clients')].telegram_id) = <<>>
        /\ \A u \in Users, e \in Emails, w \in WriteOutcomes :
              SaveClientToCms(clients', e, u, "fail", w) =
                  [ok |-> FALSE, clients |-> clients']
      ]_vars

\* C11 witness: every chat has saved an address and has one client record, and
\* the records hold different addresses
C11_Witness ==
    /\ \A u \in Users : Len(ClientsOf(clients, u)) = 1
    /\ \E i, j \in DOMAIN clients : clients[i].email # clients[j].email

RECURSIVE LineSum(_, _, _)
\* the sum over the rows with index in idx of the quantity, times the unit
\* price when priced
LineSum(rows, idx, priced) ==
    IF idx = {} THEN 0
    ELSE LET i == CHOOSE j \in idx : TRUE
         IN  rows[i].quantity * (IF priced THEN Price(rows[i].product) ELSE 1)
             + LineSum(rows, idx \ {i}, priced)

\* C12: the cart view show_cart builds has exactly one group per distinct
\* product of the rows; a group's total_quantity is the sum of the quantities of
\* its rows and its total_price the sum of quantity times unit price over them;
\* the total is the sum over all rows; two rows of product 1 (price 10) with
\* quantities 2 and 3 give one group with 5 and 50.
C12_GroupTotals ==
    ev.view.kind = "cart" =>
        LET rows   == RowsOf(carts, items, ev.u)
            groups == ev.view.groups
            of(p)  == {i \in DOMAIN rows : rows[i].product = p}
        IN  /\ {groups[k].pid : k \in DOMAIN groups} = {r.product : r \in Range(rows)}
            /\ \A j, k \in DOMAIN groups : groups[j].pid = groups[k].pid => j = k
            /\ \A k \in DOMAIN groups :
                  /\ groups[k].total_quantity = LineSum(rows, of(groups[k].pid), FALSE)
                  /\ groups[k].total_price = LineSum(rows, of(groups[k].pid), TRUE)
            /\ ev.view.total = LineSum(rows, DOMAIN rows, TRUE)
            /\ ( /\ Len(rows) = 2
                 /\ \A i \in 1..2 : rows[i].product = 1 /\ rows[i].quantity = i + 1 )
               => /\ Len(groups) = 1
                  /\ groups[1].total_quantity = 5
                  /\ groups[1].total_price = 50

\* C12 witness: a cart view of three rows in two groups, one of them of two
\* rows with quantities 2 and 3
C12_Witness ==
    /\ ev.view.kind = "cart"
    /\ Len(items) = 3
    /\ Len(ev.view.groups) = 2
    /\ \E k \in 1..2 : ev.view.groups[k].total_quantity = 5
    /\ \E i, j \in 1..3 :
          /\ items[i].product = items[j].product
          /\ items[i].quantity = 2 /\ items[j].quantity = 3

\* C13: when an update whose handler is to render the catalog menu (/start,
\* back_to_menu, cancel_email, a matching email) finds fetch_products empty, the
\* user is sent "temporarily unavailable", no menu is sent, the chat's keyboards
\* stay as they were, and the state is HANDLE_MENU.
C13_UnavailableCatalog ==
    [][ (~ev'.raised /\ "fetch_products" \in ev'.failed) =>
          /\ "unavailable" \in out'
          /\ "menu" \notin out'
          /\ chat'[ev'.u] = chat[ev'.u]
          /\ conv'[ev'.u] = HANDLE_MENU
      ]_vars

\* C13 witness: back_to_menu was pressed in HANDLE_CART with the catalog
\* unreachable, and the user was told so
C13_Witness ==
    /\ ev.handler = "handle_cart" /\ ev.act = "back_to_menu"
    /\ ev.pre = HANDLE_CART
    /\ "fetch_products" \in ev.failed
    /\ "unavailable" \in out
    /\ conv[ev.u] = HANDLE_MENU

\* C14: the updates of a chat are handled one at a time: no update is taken
\* while a handler is in flight, so a handler's lookup and write are not
\* interleaved with another's, and no chat gets a second cart.
C14_OneAtATime ==
    /\ \A j, k \in DOMAIN inflight : inflight[j].u = inflight[k].u => j = k
    /\ Len(inflight) <= 1
    /\ \A u \in Users : Len(CartsOf(carts, u)) <= 1

\* C14 witness: a handler is between its lookup, which found no cart, and its
\* POST of a cart, while the store holds the other chat's cart and rows
C14_Witness ==
    /\ Len(inflight) = 1
    /\ inflight[1].pc = "post"
    /\ carts # <<>>
    /\ items # <<>>

\* C15: in HANDLE_MENU an add-to-cart update whose get_or_create_cart and
\* add_to_cart succeed appends exactly one row, of quantity 1, of that product
\* and of the chat's cart, changes no other row, and leaves the state
\* HANDLE_MENU; a second add of the same product appends a second row.
C15_AddAppendsOneRow ==
    [][ ( /\ ev'.handler = "handle_menu" /\ ev'.act = "add"
          /\ ~ev'.raised /\ ev'.failed = {} )
        => /\ Len(items') = Len(items) + 1
           /\ SubSeq(items', 1, Len(items)) = items
           /\ LET row == items'[Len(items')]
              IN  /\ row.product = ev'.arg
                  /\ row.quantity = 1
                  /\ row.cart \in IdsOf(CartsOf(carts', ev'.u))
                  /\ row.documentId \notin IdsOf(items)
           /\ clients' = clients
           /\ conv'[ev'.u] = HANDLE_MENU
      ]_vars

\* C15 witness: an add-to-cart has just succeeded with a row of the same
\* product already in the cart, which now has two rows of it
C15_Witness ==
    /\ ev.handler = "handle_menu" /\ ev.act = "add" /\ ev.failed = {}
    /\ Len(RowsOfProduct(RowsOf(carts, items, ev.u), ev.arg)) = 2
    /\ conv[ev.u] = HANDLE_MENU

\* C16: cancel_email in WAITING_EMAIL moves the conversation to HANDLE_MENU,
\* and checkout in HANDLE_CART moves it to WAITING_EMAIL; neither changes a
\* cart, a row or a client record of the store.
C16_CancelAndCheckoutFrame ==
    [][ /\ ( /\ ev'.handler = "handle_email" /\ ev'.act = "cancel_email"
             /\ ~ev'.raised )
           => /\ conv'[ev'.u] = HANDLE_MENU
              /\ <<carts', items', clients'>> = <<carts, items, clients>>
              /\ ev'.called \subseteq {"fetch_products"}
        /\ ( /\ ev'.handler = "handle_cart" /\ ev'.act = "checkout"
             /\ ~ev'.raised )
           => /\ conv'[ev'.u] = WAITING_EMAIL
              /\ <<carts', items', clients'>> = <<carts, items, clients>>
              /\ ev'.called = {}
      ]_vars

\* C16 witness: the email prompt, reached by checkout with rows in the cart,
\* was cancelled by a chat that has a client record
C16_Witness ==
    /\ ev.handler = "handle_email" /\ ev.act = "cancel_email" /\ ~ev.raised
    /\ ev.pre = WAITING_EMAIL
    /\ RowsOf(carts, items, ev.u) # <<>>
    /\ ClientsOf(clients, ev.u) # <<>>
    /\ conv[ev.u] = HANDLE_MENU

\* the update just handled is one of those that lead back to the menu
Escape ==
    \/ ev.handler = "start"
    \/ ev.handler = "handle_cart" /\ ev.act = "back_to_menu"
    \/ ev.handler = "handle_email" /\ ev.act = "cancel_email"
    \/ ev.handler = "handle_email" /\ ev.act = "text" /\ ev.valid

\* C17: no state is terminal: in every reachable state each chat has an update
\* whose handling ends in HANDLE_MENU with every remote call failing (/start
\* before the conversation, back_to_menu in HANDLE_CART, cancel_email and a
\* matching email in WAITING_EMAIL), and every such update that was handled
\* did end in HANDLE_MENU.
C17_NoTerminalState ==
    /\ \A u \in Users :
          /\ start(Base(u), "fail").ret = HANDLE_MENU
          /\ conv[u] = HANDLE_CART =>
                /\ <<0, <<"back_to_menu", 0>>>> \in Presses(u)
                /\ handle_cart(u, 0, "back_to_menu", 0,
                               "fail", "fail", "fail", "fail", FALSE, "bad").ret
                   = HANDLE_MENU
          /\ conv[u] = WAITING_EMAIL =>
                /\ <<0, <<"cancel_email", 0>>>> \in Presses(u)
                /\ handle_email_query(u, "cancel_email", "fail").ret = HANDLE_MENU
                /\ handle_email_text(u, UserAtExample, "fail", "fail", "fail",
                                     "fail", "fail", "fail").ret = HANDLE_MENU
    /\ (Handled /\ Escape) => conv[ev.u] = HANDLE_MENU

\* C17 witness: a matching email was handled in WAITING_EMAIL with the upsert
\* and the catalog failing, and the conversation is back in HANDLE_MENU
C17_Witness ==
    /\ ev.handler = "handle_email" /\ ev.act = "text" /\ ev.valid /\ ~ev.raised
    /\ ev.pre = WAITING_EMAIL
    /\ {"save_client_to_cms", "fetch_products"} \subseteq ev.failed
    /\ conv[ev.u] = HANDLE_MENU

\* C18: /start, handled in any state (no conversation, HANDLE_MENU, HANDLE_CART,
\* WAITING_EMAIL), puts the conversation in HANDLE_MENU and changes no cart, row
\* or client record: it only reads the catalog.
C18_StartFrame ==
    [][ (ev'.handler = "start" /\ ~ev'.raised) =>
          /\ ev'.pre \in {NoConv, HANDLE_MENU, HANDLE_CART, WAITING_EMAIL}
          /\ conv'[ev'.u] = HANDLE_MENU
          /\ <<carts', items', clients'>> = <<carts, items, clients>>
          /\ ev'.called = {"fetch_products"}
      ]_vars

\* C18 witness: /start was handled in WAITING_EMAIL by a chat with rows in its
\* cart and a client record
C18_Witness ==
    /\ ev.handler = "start" /\ ~ev.raised
    /\ ev.pre = WAITING_EMAIL
    /\ RowsOf(carts, items, ev.u) # <<>>
    /\ ClientsOf(clients, ev.u) # <<>>
    /\ conv[ev.u] = HANDLE_MENU

\* C19: an add-to-cart update is answered "added to cart" only if it created a
\* row of that product in the chat's cart, and never when add_to_cart failed.
C19_AddedOnlyIfCreated ==
    [][ ( /\ ev'.handler = "handle_menu" /\ ev'.act = "add" /\ ~ev'.raised
          /\ "added" \in out' )
        => /\ Len(items') = Len(items) + 1
           /\ items'[Len(items')].product = ev'.arg
           /\ items'[Len(items')].cart \in IdsOf(CartsOf(carts', ev'.u))
           /\ "add_to_cart" \notin ev'.failed
      ]_vars

\* the texts that confirm an order
OrderTexts == {"order_placed", "thanks"}

\* C20: an order confirmation is sent, to a user who pressed only buttons of
\* displayed keyboards, only by the update that handled a matching email in
\* WAITING_EMAIL and upserted the user's client record with it.
C20_ConfirmationNeedsEmail ==
    (ev.honest /\ ~ev.raised /\ out \cap OrderTexts # {}) =>
        /\ ev.handler = "handle_email" /\ ev.act = "text" /\ ev.valid
        /\ ev.pre = WAITING_EMAIL
        /\ "save_client_to_cms" \notin ev.failed
        /\ \E i \in DOMAIN clients :
              clients[i].telegram_id = ev.u /\ clients[i].email = ev.email

\* row r belongs to a cart of chat A
OwnCart(cs, A, r) == r.cart \in IdsOf(CartsOf(cs, A))

\* C21: handling an update of chat A changes no cart and no cart line of another
\* chat B, when both chats press only buttons of keyboards displayed to them:
\* every row the update removes is a row of a cart of A, every row it adds is a
\* row of a cart of A, and the carts of every other chat stay as they were.
C21_OwnCartOnly ==
    [][LET A == ev'.u
       IN  /\ \A r \in Range(items) \ Range(items') : OwnCart(carts, A, r)
           /\ \A r \in Range(items') \ Range(items) : OwnCart(carts', A, r)
           /\ \A B \in Users \ {A} : CartsOf(carts', B) = CartsOf(carts, B)]_vars

\* two rows were created, chat A has just pressed a displayed remove button, its
\* row is gone from the store and the row of the other chat B is still there
C21_Witness ==
    \E A \in Users, B \in Users :
        /\ A # B
        /\ ev.u = A
        /\ ev.act = "remove"
        /\ Cardinality(issued) = 2
        /\ CartsOf(carts, A) # <<>>
        /\ Len(items) = 1
        /\ OwnCart(carts, B, items[1])
        /\ \E i \in DOMAIN chat[B] : \E b \in chat[B][i] :
               b[1] = "remove" /\ b[2] = items[1].documentId

====
